---------------------------- MODULE Spec2Model ----------------------------
(***************************************************************************)
(* Model of the SARIF viewer's log ingestion: LogReader (read, readResults,*)
(* onDocumentOpened, onDocumentClosed) and LocationFactory (create,        *)
(* mapToSarifFileLocation, mapToSarifFileResult, createLocationOfMapping). *)
(*                                                                         *)
(* JavaScript is single threaded: an action of the model is the code that  *)
(* runs between two suspension points (awaits) of one ingestion, or one    *)
(* event handler.  Indices (runIndex, resultIndex) are 0-based as in the   *)
(* code; TLA+ sequences are 1-based, so element k of an array is s[k+1].   *)
(***************************************************************************)
EXTENDS Integers, Sequences, FiniteSets, TLC

(***************************************************************************)
(* Bounds of the model.                                                    *)
(***************************************************************************)
\* total number of read() calls (ingestions) in one behaviour
MaxReads == 2

(***************************************************************************)
(* Documents of the workspace.  doc.fileName and doc.uri.toString() both   *)
(* identify the document, so one string stands for both.                   *)
(***************************************************************************)
SarifDocs == {"a.sarif", "b.sarif"}

OtherDocs == {"notes.json"}

Docs == SarifDocs \cup OtherDocs

\* LogReader.isSarifFile: languageId json and extension .sarif
IsSarifFile(doc) == doc \in SarifDocs

(***************************************************************************)
(* Raw texts a document can hold.  A text either does not parse, or parses *)
(* to a log with a version (old: the upgrader takes it) and runs, each a   *)
(* list of results.  Of a result the model keeps what the code reads:      *)
(*   locs    "absent"     result.locations undefined                       *)
(*           "empty"      result.locations = []                            *)
(*           "nophys"     locations[0] without physicalLocation            *)
(*           "phys_noart" locations[0].physicalLocation without            *)
(*                        artifactLocation                                 *)
(*           "phys"       locations[0].physicalLocation.artifactLocation   *)
(*   target  result.analysisTarget defined                                 *)
(***************************************************************************)
R(locs, target) == [locs |-> locs, target |-> target]

Texts ==
  << [malformed |-> TRUE,  old |-> FALSE, runs |-> << >>],
     [malformed |-> FALSE, old |-> TRUE,
      runs |-> << << R("phys", FALSE) >> >>],
     [malformed |-> FALSE, old |-> FALSE,
      runs |-> << << R("phys", FALSE), R("absent", TRUE) >>,
                  << R("absent", FALSE) >> >>],
     [malformed |-> FALSE, old |-> FALSE,
      runs |-> << << R("nophys", TRUE), R("nophys", FALSE) >> >>],
     [malformed |-> FALSE, old |-> FALSE,
      runs |-> << << R("phys", TRUE), R("empty", TRUE) >> >>],
     [malformed |-> FALSE, old |-> FALSE,
      runs |-> << << >>, << R("phys_noart", FALSE), R("empty", FALSE) >> >>] >>

TextIds == 1..Len(Texts)

HasLocation(result) == result.locs \in {"nophys", "phys_noart", "phys"}

HasPhysicalLocation(result) == result.locs \in {"phys_noart", "phys"}

(***************************************************************************)
(* Structural paths (JSON pointers) into the parsed document.              *)
(***************************************************************************)
ResultPath(runIndex, resultIndex) == <<"runs", runIndex, "results", resultIndex>>

PhysicalLocationPath(runIndex, resultIndex) ==
  ResultPath(runIndex, resultIndex) \o <<"locations", 0, "physicalLocation">>

AnalysisTargetPath(runIndex, resultIndex) ==
  ResultPath(runIndex, resultIndex) \o <<"analysisTarget">>

\* the pointers json-source-map produces for one result node
PathsOfResult(runs, r, i) ==
  {ResultPath(r, i)}
    \cup (IF HasPhysicalLocation(runs[r + 1][i + 1])
            THEN {PhysicalLocationPath(r, i)} ELSE {})
    \cup (IF runs[r + 1][i + 1].target
            THEN {AnalysisTargetPath(r, i)} ELSE {})

PathsOf(runs) ==
  UNION { UNION { PathsOfResult(runs, r, i) : i \in 0..(Len(runs[r + 1]) - 1) } :
            r \in 0..(Len(runs) - 1) }

\* first line of the text of result node (r, i): results are laid out one
\* after the other, run after run
NodeLine(path) == 10 + 100 * path[2] + 10 * path[4]

\* the span json-source-map records for the node at a path: value is the
\* position of its first character, valueEnd the position after its last;
\* a node is never empty, so valueEnd is after value
EntryOf(path) ==
  IF Len(path) = 4
    THEN [value    |-> [line |-> NodeLine(path), column |-> 8],
          valueEnd |-> [line |-> NodeLine(path) + 7, column |-> 9]]
  ELSE IF path[5] = "locations"
    THEN [value    |-> [line |-> NodeLine(path) + 2, column |-> 30],
          valueEnd |-> [line |-> NodeLine(path) + 4, column |-> 13]]
    ELSE [value    |-> [line |-> NodeLine(path) + 5, column |-> 26],
          valueEnd |-> [line |-> NodeLine(path) + 5, column |-> 60]]

\* jsonMap.parse on a text that parses: the tree and the pointers
Parse(text) ==
  [data     |-> [old |-> text.old, runs |-> text.runs],
   pointers |-> [p \in PathsOf(text.runs) |-> EntryOf(p)]]

(***************************************************************************)
(* Locations (common/Interfaces.d.ts Location).  A Location that is        *)
(* undefined in the code is the record with defined = FALSE.               *)
(***************************************************************************)
\* vscode Range(startLine, startCharacter, endLine, endCharacter): a range
\* whose start is after its end is stored with the two swapped
Range(sl, sc, el, ec) ==
  IF sl < el \/ (sl = el /\ sc <= ec)
    THEN [start |-> [line |-> sl, character |-> sc],
          end   |-> [line |-> el, character |-> ec]]
    ELSE [start |-> [line |-> el, character |-> ec],
          end   |-> [line |-> sl, character |-> sc]]

(***************************************************************************)
(* Regions (sarif.Region) and LocationFactory.parseRange.  A property that *)
(* is undefined in the JSON is the empty tuple, a property with the number *)
(* v is <<v>>.  Of a snippet text the model keeps its length, of a snippet *)
(* binary the number of its base64 characters.                             *)
(***************************************************************************)
undefined == << >>

IsDefined(x) == x # undefined

Some(v) == <<v>>

ValueOf(x) == x[1]

\* largest 1-based line or column of the regions tried
MaxCoord == 2

\* largest charOffset and charLength of the regions tried
MaxOffset == 1

\* longest snippet text of the regions tried
MaxSnippetLen == 3

\* base64 characters of the longest snippet binary tried, in groups of four
MaxBinaryGroups == 1

Optional(values) == {undefined} \cup { Some(v) : v \in values }

UndefinedSnippet == [defined |-> FALSE, text |-> undefined, binary |-> undefined]

Snippets ==
  {UndefinedSnippet}
    \cup [defined : {TRUE},
          text    : Optional(0..MaxSnippetLen),
          binary  : Optional({ 4 * g : g \in 0..MaxBinaryGroups })]

UndefinedRegion ==
  [defined |-> FALSE,
   startLine |-> undefined, startColumn |-> undefined,
   endLine |-> undefined, endColumn |-> undefined,
   charOffset |-> undefined, charLength |-> undefined,
   snippet |-> UndefinedSnippet]

Regions ==
  [defined     : {TRUE},
   startLine   : Optional(1..MaxCoord),
   startColumn : Optional(1..MaxCoord),
   endLine     : Optional(1..MaxCoord),
   endColumn   : Optional(1..MaxCoord),
   charOffset  : Optional(0..MaxOffset),
   charLength  : Optional(0..MaxOffset),
   snippet     : Snippets]

\* Buffer.from(binary, "base64").toString().length for unpadded base64 of
\* one-byte characters: four base64 characters decode to three
DecodedLength(base64Length) == (base64Length \div 4) * 3

\* vscode Position(line, character) throws on a negative line or character,
\* so new Range(...) of line 194 throws when a coordinate is negative
RangeThrows(sl, sc, el, ec) == sl < 0 \/ sc < 0 \/ el < 0 \/ ec < 0

\* lines 158 to 161
StartLineOf(region) ==
  IF region.defined /\ IsDefined(region.startLine)
    THEN ValueOf(region.startLine) - 1
    ELSE 0

StartColOf(region) ==
  IF region.defined /\ IsDefined(region.startLine)
    THEN IF IsDefined(region.startColumn)
           THEN ValueOf(region.startColumn) - 1 ELSE 0
  ELSE IF region.defined /\ IsDefined(region.charOffset)
    THEN ValueOf(region.charOffset)
    ELSE 0

\* lines 169 to 181: the else of line 177 belongs to the test of
\* region.snippet, so it is not taken for a snippet without text and binary
EndOfLineOf(region) ==
  /\ region.defined
  /\ IsDefined(region.startLine)
  /\ ~IsDefined(region.endColumn)
  /\ ~region.snippet.defined

\* lines 163 to 167 and 178
EndLineOf(region) ==
  IF region.defined /\ IsDefined(region.startLine)
    THEN (IF IsDefined(region.endLine)
            THEN ValueOf(region.endLine) - 1
            ELSE StartLineOf(region))
         + (IF EndOfLineOf(region) THEN 1 ELSE 0)
    ELSE 0

\* mutant of CharEndCol: the length alone
CharEndColLengthOnly(region) ==
  IF IsDefined(region.charLength)
    THEN ValueOf(region.charLength)
    ELSE ValueOf(region.charOffset)

\* lines 186 to 190
CharEndCol(region) ==
  IF IsDefined(region.charLength)
    THEN ValueOf(region.charLength) + ValueOf(region.charOffset)
    ELSE ValueOf(region.charOffset)

\* lines 153 and 169 to 190
EndColOf(region) ==
  IF region.defined /\ IsDefined(region.startLine)
    THEN IF IsDefined(region.endColumn)
           THEN ValueOf(region.endColumn) - 1
         ELSE IF region.snippet.defined
           THEN IF IsDefined(region.snippet.text)
                  THEN ValueOf(region.snippet.text) - 2
                ELSE IF IsDefined(region.snippet.binary)
                  THEN DecodedLength(ValueOf(region.snippet.binary))
                  ELSE 1
           ELSE 0
  ELSE IF region.defined /\ IsDefined(region.charOffset)
    THEN CharEndCol(region)
    ELSE 1

\* LocationFactory.parseRange(region): what it returns, or that it threw
ParseRange(region) ==
  LET startline == StartLineOf(region)
      startcol  == StartColOf(region)
      endline   == EndLineOf(region)
      endcol    == EndColOf(region)
  IN IF RangeThrows(startline, startcol, endline, endcol)
       THEN [threw |-> TRUE, range |-> Range(0, 0, 0, 0), endOfLine |-> FALSE]
       ELSE [threw |-> FALSE,
             range |-> Range(startline, startcol, endline, endcol),
             endOfLine |-> EndOfLineOf(region)]

UndefinedLocation ==
  [defined |-> FALSE, endOfLine |-> FALSE, mapped |-> FALSE,
   range |-> Range(0, 0, 0, 0), uri |-> ""]

\* the uri the Artifact Resolver (FileMapper.get) answers with
ArtifactUri == "file:///src/a.c"

(***************************************************************************)
(* Location nodes (sarif.Location) as create and getOrRemap read them:     *)
(*   defined  the node is not undefined                                    *)
(*   phys     "absent"  no physicalLocation                                *)
(*            "noart"   a physicalLocation without artifactLocation        *)
(*            "art"     a physicalLocation with an artifactLocation        *)
(*   region   physicalLocation.region                                      *)
(***************************************************************************)
UndefinedSarifLocation ==
  [defined |-> FALSE, phys |-> "absent", region |-> UndefinedRegion]

\* the regions of the location nodes tried: line regions, with a snippet
\* text or without a snippet
NodeRegions ==
  { region \in Regions :
      /\ region.charOffset = undefined
      /\ region.charLength = undefined
      /\ region.snippet.binary = undefined
      /\ region.snippet.defined => IsDefined(region.snippet.text) }
    \cup {UndefinedRegion}

SarifLocations ==
  {UndefinedSarifLocation}
    \cup {[defined |-> TRUE, phys |-> "absent", region |-> UndefinedRegion]}
    \cup [defined : {TRUE}, phys : {"noart", "art"}, region : NodeRegions]

\* lines 24 to 28: the Location create starts from
DefaultLocation ==
  [defined |-> TRUE, endOfLine |-> FALSE, mapped |-> FALSE,
   range |-> Range(0, 0, 0, 1), uri |-> ""]

\* line 33: create calls FileMapper.get and awaits it
CreateAwaitsFileMapper(sarifLocation) ==
  sarifLocation.defined /\ sarifLocation.phys = "art"

\* lines 33 and 47: the region is read inside the branch of line 33
CreateReadsRegion(sarifLocation) ==
  CreateAwaitsFileMapper(sarifLocation) /\ sarifLocation.region.defined

\* lines 38 to 64 of create, after FileMapper.get answered with the flag
\* fmMapped, and lines 55 to 64 when it is not called: the Location
\* returned, or that parseRange threw
Create(sarifLocation, fmMapped) ==
  LET resolved ==
        IF CreateAwaitsFileMapper(sarifLocation)
          THEN [DefaultLocation EXCEPT !.uri = ArtifactUri, !.mapped = fmMapped]
          ELSE DefaultLocation
      parsedRange == ParseRange(sarifLocation.region)
  IN IF ~CreateReadsRegion(sarifLocation)
       THEN [threw |-> FALSE, location |-> resolved]
     ELSE IF parsedRange.threw
       THEN [threw |-> TRUE, location |-> UndefinedLocation]
       ELSE [threw |-> FALSE,
             location |-> [resolved EXCEPT !.range = parsedRange.range,
                                           !.endOfLine = parsedRange.endOfLine]]

\* the first location node of a result of Texts; these carry no region
LocationNodeOf(result) ==
  [defined |-> HasLocation(result),
   phys |-> IF result.locs = "phys" THEN "art"
            ELSE IF result.locs = "phys_noart" THEN "noart" ELSE "absent",
   region |-> UndefinedRegion]

\* LocationFactory.create for the first location node of a result.
\* fmMapped is the mapped flag FileMapper.get answers with; it is read only
\* when the node has a physical location with an artifact location.
LocationFactoryCreate(result, fmMapped) ==
  Create(LocationNodeOf(result), fmMapped).location

\* ResultInfoFactory.create: the result's own resolved location, the
\* Location of its first declared location, undefined when it declares none
ResultInfoAssignedLocation(result, fmMapped) ==
  IF HasLocation(result)
    THEN LocationFactoryCreate(result, fmMapped)
    ELSE UndefinedLocation

\* outcome of a call that throws a TypeError before it returns
Threw(map) == [threw |-> TRUE, map |-> map, location |-> UndefinedLocation]

\* mutant of MappingLocationMapped
MappingLocationMappedTrue == TRUE

\* the mapped flag createLocationOfMapping gives the Locations it builds
MappingLocationMapped == FALSE

\* mutant of CollapseEntry: the start is moved to the end
CollapseEntryToEnd(entry) == [entry EXCEPT !.value = entry.valueEnd]

\* the entry after line 130, locationMapping.valueEnd = locationMapping.value
CollapseEntry(entry) == [entry EXCEPT !.valueEnd = entry.value]

\* LocationFactory.createLocationOfMapping(sarifUri, resultPath, insertionPtr)
\* on the index map: the Location returned and the index afterwards (the
\* entry object is shared with the index, so line 130 writes into the index)
CreateLocationOfMapping(map, sarifUri, resultPath, insertionPtr) ==
  IF sarifUri \notin DOMAIN map THEN Threw(map)
  ELSE IF resultPath \notin DOMAIN map[sarifUri].pointers THEN Threw(map)
  ELSE
    LET locationMapping ==
          IF insertionPtr
            THEN CollapseEntry(map[sarifUri].pointers[resultPath])
            ELSE map[sarifUri].pointers[resultPath]
        newMap ==
          IF insertionPtr
            THEN [map EXCEPT ![sarifUri].pointers[resultPath] = locationMapping]
            ELSE map
    IN [threw |-> FALSE,
        map |-> newMap,
        location |->
          [defined |-> TRUE, endOfLine |-> FALSE,
           mapped |-> MappingLocationMapped,
           range |-> Range(locationMapping.value.line,
                           locationMapping.value.column,
                           locationMapping.valueEnd.line,
                           locationMapping.valueEnd.column),
           uri |-> sarifUri]]

\* LocationFactory.mapToSarifFileResult
MapToSarifFileResult(map, sarifUri, runIndex, resultIndex) ==
  CreateLocationOfMapping(map, sarifUri, ResultPath(runIndex, resultIndex), TRUE)

\* lines 98 to 104 of mapToSarifFileLocation, for a result whose locations
\* are undefined or have a first element
ResolveResultPath(result, runIndex, resultIndex) ==
  IF result.locs # "absent" /\ HasPhysicalLocation(result)
    THEN PhysicalLocationPath(runIndex, resultIndex)
  ELSE IF result.target
    THEN AnalysisTargetPath(runIndex, resultIndex)
    ELSE ResultPath(runIndex, resultIndex)

\* whether lines 96 to 100 throw: the run or the result is not in the tree
\* stored for the document, or locations is [] and locations[0] undefined
ResolveThrows(map, sarifUri, runIndex, resultIndex) ==
  \/ sarifUri \notin DOMAIN map
  \/ runIndex >= Len(map[sarifUri].data.runs)
  \/ resultIndex >= Len(map[sarifUri].data.runs[runIndex + 1])
  \/ map[sarifUri].data.runs[runIndex + 1][resultIndex + 1].locs = "empty"

\* LocationFactory.mapToSarifFileLocation
MapToSarifFileLocation(map, sarifUri, runIndex, resultIndex) ==
  IF ResolveThrows(map, sarifUri, runIndex, resultIndex) THEN Threw(map)
  ELSE CreateLocationOfMapping(
         map, sarifUri,
         ResolveResultPath(map[sarifUri].data.runs[runIndex + 1][resultIndex + 1],
                           runIndex, resultIndex),
         FALSE)

(***************************************************************************)
(* Progress cadence of readResults (lines 189 to 203).                     *)
(***************************************************************************)
\* line 189: results.length > 1000
ProgressThreshold == 1000

\* mutant of ShowIncrement: the threshold itself shows progress
ShowIncrementAtThreshold(n) == n >= ProgressThreshold

ShowIncrement(n) == n > ProgressThreshold

\* line 194: Math.floor(results.length / 10)
Interval(n) == n \div 10

\* mutant of IncrementDue: the threshold must be passed, not reached
IncrementDueStrict(n, resultIndex, nextIncrement) ==
  ShowIncrement(n) /\ resultIndex > nextIncrement

\* line 198: showIncrement && resultIndex >= nextIncrement
IncrementDue(n, resultIndex, nextIncrement) ==
  ShowIncrement(n) /\ resultIndex >= nextIncrement

(***************************************************************************)
(* State.                                                                  *)
(*   open              SARIF documents open in the editor                  *)
(*   sarifJSONMapping  LogReader.sarifJSONMapping: document -> JsonMapping *)
(*   Progress          ProgressHelper.Instance.Progress: the ingestion     *)
(*                     whose handle it holds, 0 for undefined              *)
(*   reports           progress reports made: <<ingestion, handle>>        *)
(*   tasks             the ingestions (calls of read), in call order       *)
(*                     (pc: the await it is suspended at, or how it ended; *)
(*                     trace, mapFiles, syncs, errors, upgrade: what it    *)
(*                     has done so far)                                    *)
(*   runInfos, nextRunId, diags                                            *)
(*                     the diagnostics store (SVDiagnosticCollection)      *)
(*   rr                locals of one readResults call, for the progress    *)
(*                     cadence                                             *)
(*   call              one call of a LocationFactory function (parseRange, *)
(*                     create, getOrRemap): its arguments, where it is,    *)
(*                     what it has done and what it returned               *)
(***************************************************************************)
VARIABLES open, sarifJSONMapping, Progress, reports, tasks,
          runInfos, nextRunId, diags, rr, call

vars == <<open, sarifJSONMapping, Progress, reports, tasks,
          runInfos, nextRunId, diags, rr, call>>

ingestionVars == <<open, sarifJSONMapping, Progress, reports,
                   tasks, runInfos, nextRunId, diags>>

\* the empty Map
EmptyMap == [d \in {} |-> d]

\* Map.set
MapSet(map, key, value) ==
  [k \in DOMAIN map \cup {key} |-> IF k = key THEN value ELSE map[k]]

TaskIds == DOMAIN tasks

\* the results of the run an ingestion is at
ResultsOf(task) == task.log[task.runIndex + 1]

(***************************************************************************)
(* The diagnostics store.                                                  *)
(***************************************************************************)
\* SVDiagnosticCollection.removeRuns(fileName): the runs of the file and
\* every diagnostic of these runs go
RemoveRunsInfos(infos, fileName) == { ri \in infos : ri.doc # fileName }

RemoveRunsDiags(ds, infos, fileName) ==
  { d \in ds : \A ri \in infos : ri.doc = fileName => d.runId # ri.id }

\* ProgressHelper.setProgressReport by ingestion t: the report goes to the
\* handle ProgressHelper holds at that moment
Report(t, handle) == reports \cup {<<t, handle>>}

(***************************************************************************)
(* read (lines 124 to 176).                                                *)
(***************************************************************************)
NewTask(doc, sync) ==
  [doc |-> doc, sync |-> sync, pc |-> "await139", log |-> << >>,
   runIndex |-> 0, resultIndex |-> 0, runId |-> 0,
   nextIncrement |-> 0, percent |-> 0,
   trace |-> << >>, mapFiles |-> 0, syncs |-> 0, errors |-> 0,
   upgrade |-> FALSE]

\* read(doc, sync) up to its first await (line 139): withProgress runs the
\* callback at once, which stores its handle and reports "Parsing Sarif file"
Read(doc, sync) ==
  /\ Len(tasks) < MaxReads
  /\ IsSarifFile(doc)
  /\ tasks' = Append(tasks, NewTask(doc, sync))
  /\ Progress' = Len(tasks) + 1
  /\ reports' = Report(Len(tasks) + 1, Len(tasks) + 1)
  /\ UNCHANGED <<sarifJSONMapping, runInfos, nextRunId, diags>>

\* mutant of RunLoopHead: the view is synchronised when a run is registered
RunLoopHeadSyncsPerRun(t, task) ==
  IF task.runIndex < Len(task.log)
    THEN /\ tasks' = [tasks EXCEPT ![t] =
              [task EXCEPT !.pc = "await161",
                           !.runId = nextRunId,
                           !.syncs = IF task.sync THEN @ + 1 ELSE @,
                           !.trace = Append(@, <<"run", task.runIndex>>)]]
         /\ runInfos' = runInfos \cup {[id |-> nextRunId, doc |-> task.doc]}
         /\ nextRunId' = nextRunId + 1
         /\ reports' = Report(t, Progress)
         /\ UNCHANGED Progress
    ELSE /\ tasks' = [tasks EXCEPT ![t] = [task EXCEPT !.pc = "Done"]]
         /\ Progress' = 0
         /\ UNCHANGED <<runInfos, nextRunId, reports>>

\* the store's effect of lines 155 to 161 and 168 to 173 on an ingestion
\* that is at the head of the run loop: the next run is registered and
\* "Mapping Files" reported, or the loop is over, the view synchronised when
\* sync is set and the shared handle cleared
RunLoopHead(t, task) ==
  IF task.runIndex < Len(task.log)
    THEN /\ tasks' = [tasks EXCEPT ![t] =
              [task EXCEPT !.pc = "await161",
                           !.runId = nextRunId,
                           !.trace = Append(@, <<"run", task.runIndex>>)]]
         /\ runInfos' = runInfos \cup {[id |-> nextRunId, doc |-> task.doc]}
         /\ nextRunId' = nextRunId + 1
         /\ reports' = Report(t, Progress)
         /\ UNCHANGED Progress
    ELSE /\ tasks' = [tasks EXCEPT ![t] =
              [task EXCEPT !.pc = "Done",
                           !.syncs = IF task.sync THEN @ + 1 ELSE @]]
         /\ Progress' = 0
         /\ UNCHANGED <<runInfos, nextRunId, reports>>

\* jsonMap.parse throws on a text that is not JSON
ParseThrows(text) == text.malformed

\* FileConverter.tryUpgradeSarif(log.version, log.$schema, doc): true when
\* the log is of an older version, which it sets out to upgrade
TryUpgradeSarif(log) == log.old

\* mutant of ParseFailed: the undefined docMapping is stored for the document
ParseFailedStoresMapping(t, task) ==
  /\ tasks' = [tasks EXCEPT ![t] =
        [task EXCEPT !.pc = "Failed", !.errors = @ + 1]]
  /\ sarifJSONMapping' =
        MapSet(sarifJSONMapping, task.doc,
               [data |-> [old |-> FALSE, runs |-> << >>], pointers |-> EmptyMap])
  /\ UNCHANGED <<Progress, reports, runInfos, nextRunId>>

\* lines 142 to 146: the parse threw; an error message is shown and read
\* returns
ParseFailed(t, task) ==
  /\ tasks' = [tasks EXCEPT ![t] =
        [task EXCEPT !.pc = "Failed", !.errors = @ + 1]]
  /\ UNCHANGED <<sarifJSONMapping, Progress, reports, runInfos, nextRunId>>

\* mutant of AfterParse: the return of line 152 is missing
AfterParseNoReturn(t, task, log) ==
  RunLoopHead(t, [task EXCEPT !.log = log.runs,
                              !.upgrade = TryUpgradeSarif(log)])

\* lines 149 to 161, the mapping stored: read returns when the upgrader
\* takes the log, and enters the run loop otherwise
AfterParse(t, task, log) ==
  IF TryUpgradeSarif(log)
    THEN /\ tasks' = [tasks EXCEPT ![t] =
              [task EXCEPT !.pc = "Upgrading", !.upgrade = TRUE]]
         /\ UNCHANGED <<Progress, reports, runInfos, nextRunId>>
    ELSE RunLoopHead(t, [task EXCEPT !.log = log.runs])

\* lines 140 to 161, after the await of line 139: parse the text the
\* document holds at that moment (doc.getText(), any of Texts: the document
\* may have been edited or rewritten since it was last read), store the
\* mapping, ask the upgrader, enter the run loop
ParseDocument(t) ==
  /\ tasks[t].pc = "await139"
  /\ \E id \in TextIds :
       IF ParseThrows(Texts[id])
         THEN ParseFailed(t, tasks[t])
         ELSE /\ sarifJSONMapping' =
                   MapSet(sarifJSONMapping, tasks[t].doc, Parse(Texts[id]))
              /\ AfterParse(t, tasks[t], Parse(Texts[id]).data)
  /\ UNCHANGED <<open, diags, rr, call>>

\* line 162, after the await of line 161: FileMapper.mapFiles is called
MapFiles(t) ==
  /\ tasks[t].pc = "await161"
  /\ tasks' = [tasks EXCEPT ![t].pc = "await162", ![t].mapFiles = @ + 1]
  /\ UNCHANGED <<open, sarifJSONMapping, Progress, reports,
                 runInfos, nextRunId, diags, rr, call>>

\* line 164, after the await of line 162: "Loading n Results" is reported
ReportLoading(t) ==
  /\ tasks[t].pc = "await162"
  /\ tasks' = [tasks EXCEPT ![t].pc = "await164"]
  /\ reports' = Report(t, Progress)
  /\ UNCHANGED <<open, sarifJSONMapping, Progress,
                 runInfos, nextRunId, diags, rr, call>>

(***************************************************************************)
(* readResults (lines 186 to 215).  The await of line 165 on readResults   *)
(* and the await of line 205 on the promise of the callback continue as    *)
(* soon as the awaited code has run: no event and no other await can       *)
(* complete in between, so the model does not stop there.                  *)
(***************************************************************************)
\* mutant of ResultLoopOver: the loop stops one result early
ResultLoopOverEarly(task) == task.resultIndex + 1 >= Len(ResultsOf(task))

\* line 197: the loop condition resultIndex < results.length fails
ResultLoopOver(task) == task.resultIndex >= Len(ResultsOf(task))

\* lines 197 to 205, at the head of the result loop: the loop is over,
\* readResults returns and read goes to its next run (runIndex++); or a
\* progress report is due and awaited (line 202); or
\* ResultInfoFactory.create is called and awaited (line 205)
ResultLoopHead(t, task) ==
  IF ResultLoopOver(task)
    THEN RunLoopHead(t, [task EXCEPT !.runIndex = @ + 1])
  ELSE IF IncrementDue(Len(ResultsOf(task)), task.resultIndex, task.nextIncrement)
    THEN /\ tasks' = [tasks EXCEPT ![t] =
              [task EXCEPT !.pc = "await202",
                           !.nextIncrement = @ + Interval(Len(ResultsOf(task))),
                           !.percent = @ + 10]]
         /\ reports' = Report(t, Progress)
         /\ UNCHANGED <<Progress, runInfos, nextRunId>>
    ELSE /\ tasks' = [tasks EXCEPT ![t] = [task EXCEPT !.pc = "await205"]]
         /\ UNCHANGED <<Progress, reports, runInfos, nextRunId>>

\* line 165, after the await of line 164: readResults is entered (lines 189
\* to 197); or, after the await of line 202 in it, line 205 is reached
EnterReadResults(t) ==
  /\ tasks[t].pc \in {"await164", "await202"}
  /\ IF tasks[t].pc = "await202"
       THEN /\ tasks' = [tasks EXCEPT ![t].pc = "await205"]
            /\ UNCHANGED <<Progress, reports, runInfos, nextRunId>>
       ELSE ResultLoopHead(t, [tasks[t] EXCEPT
                          !.resultIndex = 0,
                          !.percent = 0,
                          !.nextIncrement =
                             IF ShowIncrement(Len(ResultsOf(tasks[t])))
                               THEN Interval(Len(ResultsOf(tasks[t]))) ELSE 0])
  /\ UNCHANGED <<open, sarifJSONMapping, diags, rr, call>>

\* the diagnostic SVDiagnosticFactory.create builds from a resultInfo
Diagnostic(t, task, locationInSarifFile, assignedLocation) ==
  [task |-> t, doc |-> task.doc, runId |-> task.runId,
   runIndex |-> task.runIndex, id |-> task.resultIndex,
   locationInSarifFile |-> locationInSarifFile,
   assignedLocation |-> assignedLocation]

\* mutant of NeedsLogLocation: an unmapped location is kept
NeedsLogLocationUndefinedOnly(assignedLocation) == ~assignedLocation.defined

\* line 208: the result's own location is replaced
NeedsLogLocation(assignedLocation) ==
  ~assignedLocation.defined \/ ~assignedLocation.mapped

\* the callback of lines 205 to 213 for the result an ingestion is at, whose
\* own location create resolved with the mapped flag fmMapped: the index
\* afterwards, whether it threw, and the diagnostic it adds if it did not
Callback(t, task, map, fmMapped) ==
  LET own == ResultInfoAssignedLocation(
               ResultsOf(task)[task.resultIndex + 1], fmMapped)
      inFile == MapToSarifFileResult(map, task.doc,
                                     task.runIndex, task.resultIndex)
      inLog == MapToSarifFileLocation(inFile.map, task.doc,
                                      task.runIndex, task.resultIndex)
  IN IF inFile.threw
       THEN [threw |-> TRUE, map |-> map, added |-> {}]
     ELSE IF ~NeedsLogLocation(own)
       THEN [threw |-> FALSE, map |-> inFile.map,
             added |-> {Diagnostic(t, task, inFile.location, own)}]
     ELSE IF inLog.threw
       THEN [threw |-> TRUE, map |-> inFile.map, added |-> {}]
       ELSE [threw |-> FALSE, map |-> inLog.map,
             added |-> {Diagnostic(t, task, inFile.location, inLog.location)}]

\* lines 205 to 213 and on, after the await of line 205: the callback runs,
\* then resultIndex++ and the head of the result loop.  A TypeError in the
\* callback rejects the promise read returned; nothing catches it.
ResultCallback(t) ==
  /\ tasks[t].pc = "await205"
  /\ \E fmMapped \in IF ResultsOf(tasks[t])[tasks[t].resultIndex + 1].locs = "phys"
                       THEN BOOLEAN ELSE {FALSE} :
       LET task == tasks[t]
           done == Callback(t, task, sarifJSONMapping, fmMapped)
       IN /\ sarifJSONMapping' = done.map
          /\ diags' = diags \cup done.added
          /\ IF done.threw
               THEN /\ tasks' = [tasks EXCEPT ![t].pc = "Crashed"]
                    /\ UNCHANGED <<Progress, reports, runInfos, nextRunId>>
               ELSE ResultLoopHead(t,
                      [task EXCEPT
                         !.trace = Append(@, <<"result", task.runIndex,
                                               task.resultIndex>>),
                         !.resultIndex = @ + 1])
  /\ UNCHANGED <<open, rr, call>>

(***************************************************************************)
(* Events.                                                                 *)
(***************************************************************************)
\* onDocumentOpened(doc), VS Code's event for a document that was not
\* open: read(doc, true) for a SARIF file
OnDocumentOpened(doc) ==
  IF IsSarifFile(doc)
    THEN /\ ~open[doc]
         /\ open' = [open EXCEPT ![doc] = TRUE]
         /\ Read(doc, TRUE)
         /\ UNCHANGED <<rr, call>>
    ELSE UNCHANGED vars

\* read(doc) with no sync flag (line 111), for an open document
ExplicitRead(doc) ==
  /\ IsSarifFile(doc)
  /\ open[doc]
  /\ Read(doc, FALSE)
  /\ UNCHANGED <<open, rr, call>>

\* mutant of OnDocumentClosed: the whole list is cleared, as clearList does
OnDocumentClosedClearsAll(doc) ==
  IF IsSarifFile(doc)
    THEN /\ open[doc]
         /\ open' = [open EXCEPT ![doc] = FALSE]
         /\ runInfos' = {}
         /\ diags' = {}
         /\ UNCHANGED <<sarifJSONMapping, Progress, reports, tasks,
                        nextRunId, rr, call>>
    ELSE UNCHANGED vars

\* mutant of OnDocumentClosed: the index of the document is deleted as well
OnDocumentClosedDropsMapping(doc) ==
  IF IsSarifFile(doc)
    THEN /\ open[doc]
         /\ open' = [open EXCEPT ![doc] = FALSE]
         /\ runInfos' = RemoveRunsInfos(runInfos, doc)
         /\ diags' = RemoveRunsDiags(diags, runInfos, doc)
         /\ sarifJSONMapping' =
              [d \in DOMAIN sarifJSONMapping \ {doc} |-> sarifJSONMapping[d]]
         /\ UNCHANGED <<Progress, reports, tasks, nextRunId, rr, call>>
    ELSE UNCHANGED vars

\* onDocumentClosed(doc), VS Code's event for a document that was open:
\* removeRuns(doc.fileName) for a SARIF file
OnDocumentClosed(doc) ==
  IF IsSarifFile(doc)
    THEN /\ open[doc]
         /\ open' = [open EXCEPT ![doc] = FALSE]
         /\ runInfos' = RemoveRunsInfos(runInfos, doc)
         /\ diags' = RemoveRunsDiags(diags, runInfos, doc)
         /\ UNCHANGED <<sarifJSONMapping, Progress, reports, tasks,
                        nextRunId, rr, call>>
    ELSE UNCHANGED vars

(***************************************************************************)
(* One call of readResults on a run of n results, reduced to its progress  *)
(* cadence (lines 189 to 203): rr holds its locals and the number of       *)
(* reports it has made at line 202.                                        *)
(***************************************************************************)
\* results.length of the runs tried: up to SmallCount, within CountMargin
\* of the threshold, and LargeCount
SmallCount == 3

CountMargin == 25

LargeCount == 10000

Counts ==
  (0..SmallCount)
    \cup ((ProgressThreshold - CountMargin)..(ProgressThreshold + CountMargin))
    \cup {LargeCount}

RRInit == [n |-> 0, resultIndex |-> 0, nextIncrement |-> 0, percent |-> 0,
           notifications |-> 0, pc |-> "idle"]

\* lines 189 to 196
RREnter ==
  /\ rr.pc = "enter"
  /\ rr' = [rr EXCEPT !.pc = "loop",
                      !.resultIndex = 0,
                      !.percent = 0,
                      !.nextIncrement =
                         IF ShowIncrement(rr.n) THEN Interval(rr.n) ELSE 0]
  /\ UNCHANGED <<ingestionVars, call>>

\* lines 197 to 214, one iteration of the loop
RRIterate ==
  /\ rr.pc = "loop"
  /\ rr.resultIndex < rr.n
  /\ IF IncrementDue(rr.n, rr.resultIndex, rr.nextIncrement)
       THEN rr' = [rr EXCEPT !.nextIncrement = @ + Interval(rr.n),
                             !.percent = @ + 10,
                             !.notifications = @ + 1,
                             !.resultIndex = @ + 1]
       ELSE rr' = [rr EXCEPT !.resultIndex = @ + 1]
  /\ UNCHANGED <<ingestionVars, call>>

\* line 197, the loop condition fails: readResults returns
RRReturn ==
  /\ rr.pc = "loop"
  /\ rr.resultIndex >= rr.n
  /\ rr' = [rr EXCEPT !.pc = "done"]
  /\ UNCHANGED <<ingestionVars, call>>

(***************************************************************************)
(* One call of a LocationFactory function.                                 *)
(***************************************************************************)
\* no call under way
CallInit == [fn |-> "none", pc |-> "idle"]

\* parseRange(region), lines 149 to 195
ParseRangeCall ==
  /\ call.fn = "parseRange"
  /\ call.pc = "called"
  /\ call' = [fn |-> "parseRange",
              pc |-> IF ParseRange(call.region).threw THEN "threw" ELSE "returned",
              region |-> call.region,
              result |-> ParseRange(call.region)]
  /\ UNCHANGED <<ingestionVars, rr>>

\* create(sarifLocation, runId), lines 24 to 37: up to the await on
\* FileMapper.get, or to the return when it is not called
CreateCall ==
  /\ call.fn = "create"
  /\ call.pc = "called"
  /\ IF CreateAwaitsFileMapper(call.sarifLocation)
       THEN call' = [call EXCEPT !.pc = "await37"]
       ELSE call' = [call EXCEPT
                       !.pc = "returned",
                       !.result = Create(call.sarifLocation, FALSE).location]
  /\ UNCHANGED <<ingestionVars, rr>>

\* create after the await of line 37 (lines 38 to 64), FileMapper.get having
\* answered with either flag.  Called by getOrRemap (line 79), the Location
\* is what its line 86 returns; a throw rejects the promise of either.
CreateResume ==
  /\ call.pc = "await37"
  /\ \E fmMapped \in BOOLEAN :
       LET created == Create(call.sarifLocation, fmMapped)
       IN call' = [call EXCEPT
                     !.pc = IF created.threw THEN "threw" ELSE "returned",
                     !.fmMapped = fmMapped,
                     !.result = created.location]
  /\ UNCHANGED <<ingestionVars, rr>>

\* line 77 of getOrRemap throws a TypeError: physLoc.artifactLocation is
\* undefined, or location is undefined when location.uriBase is read
GetOrRemapThrows(location, sarifLocation) ==
  sarifLocation.phys = "noart" \/ ~location.defined

\* mutant of GetOrRemapAsksUser: a mapped location is resolved again too
GetOrRemapAsksUserAlways(location, sarifLocation) ==
  /\ sarifLocation.defined
  /\ sarifLocation.phys # "absent"

\* lines 74 and 75: the location is to be resolved again
GetOrRemapAsksUser(location, sarifLocation) ==
  /\ ~location.defined \/ ~location.mapped
  /\ sarifLocation.defined
  /\ sarifLocation.phys # "absent"

\* getOrRemap(location, sarifLocation, runId), lines 74 to 78: up to the
\* await on FileMapper.getUserToChooseFile, or to the return of line 86
GetOrRemapCall ==
  /\ call.fn = "getOrRemap"
  /\ call.pc = "called"
  /\ IF ~GetOrRemapAsksUser(call.location, call.sarifLocation)
       THEN call' = [call EXCEPT !.pc = "returned", !.result = call.location]
     ELSE IF GetOrRemapThrows(call.location, call.sarifLocation)
       THEN call' = [call EXCEPT !.pc = "threw"]
       ELSE call' = [call EXCEPT !.pc = "await78", !.choosers = @ + 1]
  /\ UNCHANGED <<ingestionVars, rr>>

\* line 79, the user having chosen: create is called and runs to its await
\* of line 37 (the node has an artifactLocation, or line 77 had thrown)
ChooserDone ==
  /\ call.fn = "getOrRemap"
  /\ call.pc = "await78"
  /\ call' = [call EXCEPT !.pc = "await37", !.creates = @ + 1]
  /\ UNCHANGED <<ingestionVars, rr>>

InitIngestion ==
  /\ open = [d \in SarifDocs |-> FALSE]
  /\ sarifJSONMapping = EmptyMap
  /\ Progress = 0
  /\ reports = {}
  /\ tasks = << >>
  /\ runInfos = {}
  /\ nextRunId = 0
  /\ diags = {}

Init ==
  /\ InitIngestion
  /\ rr = RRInit
  /\ call = CallInit

Next ==
  \/ \E doc \in Docs : OnDocumentOpened(doc)
  \/ \E doc \in Docs : ExplicitRead(doc)
  \/ \E doc \in Docs : OnDocumentClosed(doc)
  \/ \E t \in TaskIds : ParseDocument(t)
  \/ \E t \in TaskIds : MapFiles(t)
  \/ \E t \in TaskIds : ReportLoading(t)
  \/ \E t \in TaskIds : EnterReadResults(t)
  \/ \E t \in TaskIds : ResultCallback(t)

\* the ingestion of documents that are opened, read and closed
Spec == Init /\ [][Next]_vars

InitProgress ==
  /\ InitIngestion
  /\ \E n \in Counts : rr = [RRInit EXCEPT !.n = n, !.pc = "enter"]
  /\ call = CallInit

NextProgress == RREnter \/ RRIterate \/ RRReturn

\* readResults on one run of each size of Counts
SpecProgress == InitProgress /\ [][NextProgress]_vars

InitRange ==
  /\ InitIngestion
  /\ rr = RRInit
  /\ \E region \in Regions \cup {UndefinedRegion} :
       call = [fn |-> "parseRange", pc |-> "called", region |-> region]

NextRange == ParseRangeCall

\* parseRange on each region of Regions and on an undefined region
SpecRange == InitRange /\ [][NextRange]_vars

\* the Locations getOrRemap is called with: undefined, unmapped, mapped
ExistingLocations ==
  {UndefinedLocation, DefaultLocation,
   [DefaultLocation EXCEPT !.uri = ArtifactUri],
   [DefaultLocation EXCEPT !.uri = ArtifactUri, !.mapped = TRUE]}

InitResolve ==
  /\ InitIngestion
  /\ rr = RRInit
  /\ \E fn \in {"create", "getOrRemap"}, sarifLocation \in SarifLocations,
        location \in ExistingLocations :
       /\ fn = "create" => location = UndefinedLocation
       /\ call = [fn |-> fn, pc |-> "called",
                  location |-> location, sarifLocation |-> sarifLocation,
                  choosers |-> 0, creates |-> 0,
                  fmMapped |-> FALSE, result |-> UndefinedLocation]

NextResolve == CreateCall \/ CreateResume \/ GetOrRemapCall \/ ChooserDone

\* one call of create or of getOrRemap
SpecResolve == InitResolve /\ [][NextResolve]_vars

(***************************************************************************)
(* Properties.                                                             *)
(***************************************************************************)
IsPrefix(s, u) == Len(s) <= Len(u) /\ SubSeq(u, 1, Len(s)) = s

\* the registration of run r followed by its results in document order
RunEvents(log, r) ==
  << <<"run", r>> >> \o [k \in 1..Len(log[r + 1]) |-> <<"result", r, k - 1>>]

RECURSIVE EventsUpTo(_, _)
EventsUpTo(log, nRuns) ==
  IF nRuns = 0 THEN << >>
  ELSE EventsUpTo(log, nRuns - 1) \o RunEvents(log, nRuns - 1)

\* what an ingestion of a log registers and adds, in document order
ExpectedTrace(log) == EventsUpTo(log, Len(log))

DiagsOfTask(t) == { d \in diags : d.task = t }

\* C1: what an ingestion has registered (addRunInfo) and added (add) so far
\* is a prefix of the document order "run 0, its results in order, run 1,
\* its results in order, ...": nothing is skipped, repeated or reordered,
\* and an ingestion that is Done has registered and added everything.
C1_DocumentOrder ==
  \A t \in TaskIds :
    /\ IsPrefix(tasks[t].trace, ExpectedTrace(tasks[t].log))
    /\ tasks[t].pc = "Done" => tasks[t].trace = ExpectedTrace(tasks[t].log)

\* an ingestion of two runs and three results is Done
C1_Witness ==
  \E t \in TaskIds :
    /\ tasks[t].pc = "Done"
    /\ Len(tasks[t].log) = 2
    /\ Len(tasks[t].trace) = 5

\* the diagnostics of the runs the store holds for a document
DiagsOfRunsOf(doc) ==
  { d \in diags : \E ri \in runInfos : ri.doc = doc /\ ri.id = d.runId }

C3_ParseFailureIsolated ==
  [][\A t \in DOMAIN tasks' :
       tasks'[t].pc = "Failed" =>
          /\ tasks'[t].errors = 1
          /\ tasks'[t].trace = << >>
          /\ tasks'[t].mapFiles = 0
          /\ tasks'[t].syncs = 0
          /\ \A d \in diags' : d.task # t
          /\ (t \in TaskIds /\ tasks[t].pc # "Failed") =>
                /\ sarifJSONMapping' = sarifJSONMapping
                /\ diags' = diags
                /\ runInfos' = runInfos]_vars

\* a read fails on a document that has an index entry from an earlier read,
\* while the store holds diagnostics
C3_Witness ==
  \E t \in TaskIds :
    /\ tasks[t].pc = "Failed"
    /\ tasks[t].doc \in DOMAIN sarifJSONMapping
    /\ diags # {}

\* C4: an ingestion whose log the upgrader takes (tryUpgradeSarif true) is
\* over: it registers no run, resolves no artifact, adds no diagnostic and
\* signals no sync.
C4_UpgradeAborts ==
  \A t \in TaskIds :
    tasks[t].upgrade =>
      /\ tasks[t].pc = "Upgrading"
      /\ tasks[t].trace = << >>
      /\ tasks[t].mapFiles = 0
      /\ tasks[t].syncs = 0
      /\ DiagsOfTask(t) = {}

\* an ingestion was handed to the upgrader, its text parsed and indexed
C4_Witness ==
  \E t \in TaskIds :
    /\ tasks[t].upgrade
    /\ tasks[t].doc \in DOMAIN sarifJSONMapping
    /\ sarifJSONMapping[tasks[t].doc].data.old

\* C5: every diagnostic in the store has a defined assignedLocation that is
\* either the result's own mapped location (the artifact's file) or a
\* Location whose uri is the raw log document.
C5_AssignedLocation ==
  \A d \in diags :
    /\ d.assignedLocation.defined
    /\ \/ d.assignedLocation.mapped /\ d.assignedLocation.uri = ArtifactUri
       \/ d.assignedLocation.uri = d.doc

\* the store holds a file-backed diagnostic, and a log-backed one of a
\* result that declares no location
C5_Witness ==
  /\ \E d \in diags : d.assignedLocation.mapped
  /\ \E d \in diags :
       /\ d.assignedLocation.uri = d.doc
       /\ tasks[d.task].log[d.runIndex + 1][d.id + 1].locs = "absent"

\* C6 as claimed: every Location built by createLocationOfMapping has
\* mapped = true and the uri of the raw log document.
C6_MappedTrue ==
  \A d \in diags :
    /\ d.locationInSarifFile.mapped
    /\ d.locationInSarifFile.uri = d.doc
    /\ d.assignedLocation.uri # ArtifactUri =>
         d.assignedLocation.mapped /\ d.assignedLocation.uri = d.doc

\* C6 amended: every Location built by createLocationOfMapping has
\* mapped = false and the uri of the raw log document.
C6_MappedFalse ==
  \A d \in diags :
    /\ ~d.locationInSarifFile.mapped
    /\ d.locationInSarifFile.uri = d.doc
    /\ d.assignedLocation.uri # ArtifactUri =>
         ~d.assignedLocation.mapped /\ d.assignedLocation.uri = d.doc

\* a diagnostic whose assignedLocation was built by mapToSarifFileLocation
C6_Witness ==
  \E d \in diags :
    /\ d.assignedLocation.uri = d.doc
    /\ d.locationInSarifFile.uri = d.doc

\* C7: every entry of the index stored for a document has the value and
\* valueEnd the parse of its text produced.
C7_EntriesNeverMutated ==
  \A doc \in DOMAIN sarifJSONMapping :
    sarifJSONMapping[doc].pointers =
      Parse([malformed |-> FALSE,
             old |-> sarifJSONMapping[doc].data.old,
             runs |-> sarifJSONMapping[doc].data.runs]).pointers

\* the path resolveResultPath is claimed to choose
C8_ClaimedPath(result, r, i) ==
  IF result.locs \in {"phys", "phys_noart"} THEN PhysicalLocationPath(r, i)
  ELSE IF result.target THEN AnalysisTargetPath(r, i)
  ELSE ResultPath(r, i)

\* C8: for every result of a stored tree mapToSarifFileLocation succeeds and
\* answers with the span of the physical location of its first location, else
\* of its analysis target, else of the result node.
C8_ThreeTierFallback ==
  \A doc \in DOMAIN sarifJSONMapping :
    \A r \in 0..(Len(sarifJSONMapping[doc].data.runs) - 1) :
      \A i \in 0..(Len(sarifJSONMapping[doc].data.runs[r + 1]) - 1) :
        LET got == MapToSarifFileLocation(sarifJSONMapping, doc, r, i)
            entry == sarifJSONMapping[doc].pointers[
                       C8_ClaimedPath(sarifJSONMapping[doc].data.runs[r + 1][i + 1],
                                      r, i)]
        IN /\ ~got.threw
           /\ got.location.range =
                Range(entry.value.line, entry.value.column,
                      entry.valueEnd.line, entry.valueEnd.column)

\* C9: a readResults call on n results reports progress (line 202) never
\* when n <= 1000 and at most ten times when n > 1000, and the percentage
\* it reports is never above 100.
C9_ProgressBound ==
  /\ rr.n <= 1000 => rr.notifications = 0
  /\ rr.notifications <= 10
  /\ rr.percent = 10 * rr.notifications
  /\ rr.percent <= 100

\* a run of more than 1000 results was read with ten reports, the last 100%
C9_Witness ==
  /\ rr.pc = "done"
  /\ rr.n > 1000
  /\ rr.notifications = 10
  /\ rr.percent = 100

\* C10 as claimed: for n > 1000 a multiple of 10 there are exactly ten
\* reports, and fewer than ten only when n is not a multiple of 10.
C10_TenWhenMultiple ==
  (rr.pc = "done" /\ rr.n > 1000) =>
     /\ rr.n % 10 = 0 => rr.notifications = 10
     /\ rr.notifications < 10 => rr.n % 10 # 0

\* C10 amended: for n > 1000 there are exactly nine reports when n is a
\* multiple of 10 and exactly ten when it is not.
C10_NineWhenMultiple ==
  (rr.pc = "done" /\ rr.n > 1000) =>
     rr.notifications = IF rr.n % 10 = 0 THEN 9 ELSE 10

\* a run whose size is a multiple of 10 above 1000 was read with nine reports
C10_Witness ==
  /\ rr.pc = "done"
  /\ rr.n > 1000
  /\ rr.n % 10 = 0
  /\ rr.notifications = 9


\* a call of parseRange that is over
ParseRangeOver == call.fn = "parseRange" /\ call.pc \in {"returned", "threw"}

\* C11: for every region parseRange returns a range (it does not throw)
\* whose end is not before its start (endLine >= startLine, and
\* endCol >= startCol when the lines are equal) and that has no negative
\* coordinate, snippet texts of length 0 and 1 included
C11_RangeWellFormed ==
  ParseRangeOver =>
    LET range == call.result.range
    IN /\ ~call.result.threw
       /\ range.end.line >= range.start.line
       /\ range.end.line = range.start.line =>
            range.end.character >= range.start.character
       /\ range.start.line >= 0 /\ range.start.character >= 0
       /\ range.end.line >= 0 /\ range.end.character >= 0

\* startLine present, endColumn absent, no snippet text and no snippet binary
NoEndSignal(region) ==
  /\ region.defined
  /\ IsDefined(region.startLine)
  /\ ~IsDefined(region.endColumn)
  /\ ~IsDefined(region.snippet.text)
  /\ ~IsDefined(region.snippet.binary)

\* the region's end line is not before its start line
LineOrdered(region) ==
  IsDefined(region.endLine) =>
    ValueOf(region.endLine) >= ValueOf(region.startLine)

\* C12: for every region with startLine and no end signal (a snippet object
\* without text and binary included) parseRange returns endOfLine = true,
\* endCol = 0 and the zero-based end line advanced by one; in every other
\* case endOfLine = false
C12_EndOfLineWithoutEndSignal ==
  ParseRangeOver =>
    LET region == call.region
        result == call.result
    IN IF NoEndSignal(region)
         THEN /\ ~result.threw
              /\ result.endOfLine
              /\ LineOrdered(region) =>
                   /\ result.range.end.character = 0
                   /\ result.range.end.line =
                        IF IsDefined(region.endLine)
                          THEN ValueOf(region.endLine)
                          ELSE ValueOf(region.startLine)
         ELSE ~result.endOfLine

\* C13: with no startLine and a charOffset the range is
\* (0, charOffset)-(0, charOffset + charLength), or (0, charOffset)-
\* (0, charOffset) without charLength, endOfLine false; with a startLine
\* charOffset and charLength are ignored; an undefined region, or one with
\* neither startLine nor charOffset, gives (0,0)-(0,1), endOfLine false
C13_CharOffset ==
  ParseRangeOver =>
    LET region == call.region
        result == call.result
    IN /\ (region.defined /\ ~IsDefined(region.startLine)
             /\ IsDefined(region.charOffset)) =>
            /\ ~result.threw
            /\ ~result.endOfLine
            /\ result.range.start =
                 [line |-> 0, character |-> ValueOf(region.charOffset)]
            /\ result.range.end =
                 [line |-> 0,
                  character |->
                    IF IsDefined(region.charLength)
                      THEN ValueOf(region.charOffset) + ValueOf(region.charLength)
                      ELSE ValueOf(region.charOffset)]
       /\ (region.defined /\ IsDefined(region.startLine)) =>
            result = ParseRange([region EXCEPT !.charOffset = undefined,
                                               !.charLength = undefined])
       /\ (~region.defined
             \/ (~IsDefined(region.startLine) /\ ~IsDefined(region.charOffset))) =>
            /\ ~result.threw
            /\ ~result.endOfLine
            /\ result.range.start = [line |-> 0, character |-> 0]
            /\ result.range.end = [line |-> 0, character |-> 1]

C13_Witness ==
  /\ ParseRangeOver
  /\ ~IsDefined(call.region.startLine)
  /\ call.region.charOffset = Some(1)
  /\ call.region.charLength = Some(1)
  /\ call.result.range.end = [line |-> 0, character |-> 2]

\* the zero-based position of a coordinate of an index entry
PositionOf(coordinate) ==
  [line |-> coordinate.line, character |-> coordinate.column]

\* C14: createLocationOfMapping with insertionPtr (mapToSarifFileResult, for
\* the locationInSarifFile of every result) returns the zero-width range at
\* entry.value of the node at the path; without insertionPtr
\* (mapToSarifFileLocation) the range runs from entry.value to
\* entry.valueEnd of the entry stored at the path
C14_InsertionPointAndSpan ==
  [][\A d \in diags' \ diags :
       LET stored == sarifJSONMapping[d.doc]
           after == sarifJSONMapping'[d.doc]
           path == ResolveResultPath(
                     stored.data.runs[d.runIndex + 1][d.id + 1],
                     d.runIndex, d.id)
       IN /\ d.locationInSarifFile.range.start =
               PositionOf(stored.pointers[ResultPath(d.runIndex, d.id)].value)
          /\ d.locationInSarifFile.range.end =
               d.locationInSarifFile.range.start
          /\ d.assignedLocation.uri = d.doc =>
               d.assignedLocation.range =
                 Range(after.pointers[path].value.line,
                       after.pointers[path].value.column,
                       after.pointers[path].valueEnd.line,
                       after.pointers[path].valueEnd.column)]_vars

C14_Witness ==
  \E d \in diags :
    /\ d.locationInSarifFile.range.start = d.locationInSarifFile.range.end
    /\ d.assignedLocation.uri = d.doc
    /\ d.assignedLocation.range.start # d.assignedLocation.range.end

\* a call of getOrRemap that is over
GetOrRemapOver == call.fn = "getOrRemap" /\ call.pc \in {"returned", "threw"}

\* C15: getOrRemap never raises; whenever the location passed is undefined
\* or has mapped = false and the node has a physical location, it has called
\* the chooser once and then create once, and returns what create returned
C15_NeverRaisesAsksOnce ==
  GetOrRemapOver =>
    /\ call.pc # "threw"
    /\ ((~call.location.defined \/ ~call.location.mapped)
          /\ call.sarifLocation.defined
          /\ call.sarifLocation.phys # "absent") =>
         /\ call.choosers = 1
         /\ call.creates = 1
         /\ call.result = Create(call.sarifLocation, call.fmMapped).location

\* a call of create that is over
CreateOver == call.fn = "create" /\ call.pc \in {"returned", "threw"}

\* C16: create returns the range and endOfLine parseRange gives for the
\* region whenever the node's physical location has one, with or without an
\* artifactLocation; mapped is the flag FileMapper.get answered with when
\* there is an artifactLocation, and false otherwise
C16_RegionAlwaysNormalized ==
  CreateOver =>
    LET node == call.sarifLocation
    IN /\ call.pc # "threw"
       /\ (node.defined /\ node.phys # "absent" /\ node.region.defined) =>
            /\ call.result.range = ParseRange(node.region).range
            /\ call.result.endOfLine = ParseRange(node.region).endOfLine
       /\ call.result.mapped =
            IF node.defined /\ node.phys = "art" THEN call.fmMapped ELSE FALSE

\* C17: an ingestion started by a document-open event (sync set) has
\* signalled sync once when it is Done, with every run registered and every
\* diagnostic of every run added before, and not at all as long as it is not
\* Done (in progress, Failed, Upgrading); once Done it does nothing more
C17_SyncOnceWhenDone ==
  [][\A t \in DOMAIN tasks' :
       tasks'[t].sync =>
         /\ tasks'[t].pc = "Done" =>
              /\ tasks'[t].syncs = 1
              /\ tasks'[t].trace = ExpectedTrace(tasks'[t].log)
         /\ tasks'[t].pc # "Done" => tasks'[t].syncs = 0
         /\ (t \in TaskIds /\ tasks[t].pc = "Done") => tasks'[t] = tasks[t]]_vars

\* an ingestion of two runs and three results started by an open event is
\* Done and has synchronised once, another one has Failed
C17_Witness ==
  \E t, u \in TaskIds :
    /\ tasks[t].sync
    /\ tasks[t].pc = "Done"
    /\ tasks[t].syncs = 1
    /\ Len(tasks[t].log) = 2
    /\ Len(tasks[t].trace) = 5
    /\ tasks[u].sync
    /\ tasks[u].pc = "Failed"

\* C18: while a SARIF document is closed (it can be read again only once it
\* is opened) the store holds no diagnostic of its runs, also when the close
\* came while its ingestion was suspended at an await
C18_ClosedDocumentHasNoDiagnostics ==
  \A doc \in SarifDocs :
    ~open[doc] => \A d \in diags : d.doc # doc

\* C19: the paths an ingestion looks up are in the index stored for its
\* document at that moment: when the callback of lines 205 to 213 runs for
\* result (runIndex, resultIndex), the index has the document and the path
\* of that result node, also after the document was read again
C19_LookupsNeverFail ==
  [][\A t \in TaskIds :
       (tasks[t].pc = "await205" /\ tasks'[t] # tasks[t]) =>
          /\ tasks[t].doc \in DOMAIN sarifJSONMapping
          /\ ResultPath(tasks[t].runIndex, tasks[t].resultIndex)
               \in DOMAIN sarifJSONMapping[tasks[t].doc].pointers]_vars

\* C20: for a result with no physical location and no analysis target
\* (its own location is then undefined or unmapped) assignedLocation is the
\* span of the result node as parsed, from value to valueEnd of
\* /runs/r/results/i, and locationInSarifFile the zero-width range at value
C20_WholeNodeSpan ==
  \A d \in diags :
    LET result == tasks[d.task].log[d.runIndex + 1][d.id + 1]
        parsed == EntryOf(ResultPath(d.runIndex, d.id))
    IN (~HasPhysicalLocation(result) /\ ~result.target) =>
         /\ d.assignedLocation.range =
              Range(parsed.value.line, parsed.value.column,
                    parsed.valueEnd.line, parsed.valueEnd.column)
         /\ d.locationInSarifFile.range.start = PositionOf(parsed.value)
         /\ d.locationInSarifFile.range.end = PositionOf(parsed.value)

\* the step is the successful parse of doc by one of its ingestions
\* (line 148 runs: the parse did not throw)
ParsesSuccessfully(doc) ==
  \E t \in TaskIds :
    /\ tasks[t].doc = doc
    /\ tasks[t].pc = "await139"
    /\ tasks'[t].pc \notin {"await139", "Failed"}

\* two JsonMappings are the same parse: the same tree and the same nodes at
\* the same start positions (line 130 of LocationFactory writes valueEnd
\* into an entry of the mapping; it does not replace the mapping)
SameMapping(m1, m2) ==
  /\ m1.data = m2.data
  /\ DOMAIN m1.pointers = DOMAIN m2.pointers
  /\ \A p \in DOMAIN m1.pointers : m1.pointers[p].value = m2.pointers[p].value

\* C21: the step that closes a document leaves sarifJSONMapping as it is
\* (the entry of the closed document is still there with the same
\* contents); an entry is never removed, and it is replaced only by a step
\* in which a parse of that document succeeds
C21_CloseKeepsIndex ==
  [][\A doc \in SarifDocs :
       /\ (open[doc] /\ ~open'[doc]) => sarifJSONMapping' = sarifJSONMapping
       /\ (doc \in DOMAIN sarifJSONMapping /\ ~ParsesSuccessfully(doc)) =>
            /\ doc \in DOMAIN sarifJSONMapping'
            /\ SameMapping(sarifJSONMapping'[doc], sarifJSONMapping[doc])
       /\ (doc \notin DOMAIN sarifJSONMapping /\ ~ParsesSuccessfully(doc)) =>
            doc \notin DOMAIN sarifJSONMapping']_vars

\* a document that was parsed and whose diagnostics were added is closed,
\* and its index is still stored
C21_Witness ==
  \E doc \in SarifDocs :
    /\ ~open[doc]
    /\ doc \in DOMAIN sarifJSONMapping
    /\ \E t \in TaskIds : tasks[t].doc = doc /\ tasks[t].pc = "Done"
                          /\ Len(tasks[t].trace) > 1

\* C22: getOrRemap returns the Location it was passed, and calls neither
\* the chooser nor create (and with it FileMapper.get), whenever that
\* Location is mapped, and whenever the node is undefined or has no
\* physical location
C22_ReturnsLocationUnchanged ==
  (/\ GetOrRemapOver
   /\ \/ call.location.defined /\ call.location.mapped
      \/ ~call.sarifLocation.defined
      \/ call.sarifLocation.phys = "absent") =>
    /\ call.pc = "returned"
    /\ call.result = call.location
    /\ call.choosers = 0
    /\ call.creates = 0

\* getOrRemap has returned the mapped Location it was passed for a node
\* with an artifactLocation
C22_Witness ==
  /\ GetOrRemapOver
  /\ call.location.defined
  /\ call.location.mapped
  /\ call.sarifLocation.phys = "art"
  /\ call.pc = "returned"
  /\ call.result = call.location

\* C23: every progress report of an ingestion goes to the handle created
\* for that ingestion, the shared handle being defined when it reports,
\* also with another document's ingestion started or finished meanwhile;
\* and once every ingestion has ended (Done, Failed or Upgrading) the
\* shared handle is undefined
C23_ProgressHandle ==
  /\ \A report \in reports : report[2] # 0 /\ report[2] = report[1]
  /\ (tasks # << >>
        /\ \A t \in TaskIds : tasks[t].pc \in {"Done", "Failed", "Upgrading"}) =>
       Progress = 0
=============================================================================
